---- MODULE Spec2Model ----
(***************************************************************************)
(* A state-machine model of the mock-API sandbox: Policy, FaultProfile,    *)
(* the two DataGenerator classes, FixtureStore, APIOperationsRouter,       *)
(* Recorder and Sandbox.invoke.                                            *)
(*                                                                         *)
(* Python values are modelled as tagged JSON values (JNull, JInt, JStr,    *)
(* JBool, JObj, JArr); Python strings are TLA+ strings; a dict is a        *)
(* function with string keys, or, where insertion order matters, a         *)
(* sequence of <<key, value>> pairs.                                       *)
(***************************************************************************)
EXTENDS Integers, Sequences, FiniteSets, TLC

VARIABLES
    cfg,          \* what the orchestrators are built from: policy, fault, seed, generator class
    built,        \* built[o]: wall-clock second at which orchestrator o built its DataGenerator
    ops,          \* ops[o]: APIOperationsRouter._ops, name -> Operation (or NoOp)
    files,        \* files[o]: the fixture directory, path -> JSON document (or NoFile)
    dg_rng,       \* dg_rng[o]: state of the data generator's random.Random
    clock,        \* clock[o]: number of invoke calls made
    last,         \* last[o]: what the latest invoke did and returned
    recordings,   \* recordings[o]: the recordings directory, file name -> JSON document
    firstSaved,   \* firstSaved[o][path]: the response of the invoke that saved path (history)
    saveCount,    \* saveCount[o][path]: number of FixtureStore.save calls made by invoke (history)
    missCount,    \* missCount[o][path]: cache misses seen while the operation was registered (history)
    unknownSeen,  \* unknownSeen[o]: paths for which invoke answered "unknown operation" (history)
    probe         \* unit calls of FaultProfile / Policy methods and their results

vars == <<cfg, built, ops, files, dg_rng, clock, last, recordings,
          firstSaved, saveCount, missCount, unknownSeen, probe>>

-----------------------------------------------------------------------------
(* Bounds of the model.                                                    *)

MaxCalls == 3        \* invoke calls per orchestrator
RngMod == 4          \* number of states of the modelled random.Random

Orch == {1, 2}
Tools == {"X", "Y"}
Seeds == {0, 1}
BuildTimes == {7, 8}

-----------------------------------------------------------------------------
(* JSON values.                                                            *)

JNull == [t |-> "null"]
JInt(n) == [t |-> "int", v |-> n]
JStr(s) == [t |-> "str", v |-> s]
JBool(b) == [t |-> "bool", v |-> b]
JObj(pairs) == [t |-> "obj", v |-> pairs]
JArr(items) == [t |-> "arr", v |-> items]

\* Python truthiness of a JSON value
Truthy(j) ==
    CASE j.t = "null" -> FALSE
      [] j.t = "int"  -> j.v # 0
      [] j.t = "str"  -> j.v # ""
      [] j.t = "bool" -> j.v
      [] j.t = "obj"  -> j.v # <<>>
      [] j.t = "arr"  -> j.v # <<>>

\* dict.get(key, default) on a mapping with string keys
Get(d, k, default) == IF k \in DOMAIN d THEN d[k] ELSE default

\* Optional[List[str]]: <<>> is None, <<list>> is a list
NoList == <<>>
SomeList(l) == <<l>>
ListTruthy(ol) == ol # <<>> /\ ol[1] # <<>>
InList(x, l) == \E i \in 1..Len(l) : l[i] = x

-----------------------------------------------------------------------------
(* random.Random: a deterministic generator; every draw advances the state *)
(* and the drawn number is a function of the new state.                    *)

RandomSeeded(seed) == seed % RngMod
RngNext(s) == (s + 1) % RngMod
\* randint(low, high) on the state after the draw; ValueError when low > high
RandintOf(s, low, high) == low + (s % (high - low + 1))

-----------------------------------------------------------------------------
(* Policy (src/type.py)                                                    *)

DeniedReason(tool_name) == "Tool '" \o tool_name \o "' is denied by policy."

\* a policy check that forgets the deny list
is_allowed_no_deny(policy, tool_name) ==
    IF ListTruthy(policy.allowed_tools) /\ ~InList(tool_name, policy.allowed_tools[1])
    THEN [allowed |-> FALSE, reason |-> JStr(DeniedReason(tool_name))]
    ELSE [allowed |-> TRUE, reason |-> JNull]

\* a policy check that consults the allow list first
is_allowed_allow_first(policy, tool_name) ==
    IF ListTruthy(policy.allowed_tools) /\ InList(tool_name, policy.allowed_tools[1])
    THEN [allowed |-> TRUE, reason |-> JNull]
    ELSE IF ListTruthy(policy.unallowed_tools) /\ InList(tool_name, policy.unallowed_tools[1])
    THEN [allowed |-> FALSE, reason |-> JStr(DeniedReason(tool_name))]
    ELSE IF ListTruthy(policy.allowed_tools)
    THEN [allowed |-> FALSE, reason |-> JStr(DeniedReason(tool_name))]
    ELSE [allowed |-> TRUE, reason |-> JNull]

is_allowed(policy, tool_name) ==
    IF ListTruthy(policy.unallowed_tools) /\ InList(tool_name, policy.unallowed_tools[1])
    THEN [allowed |-> FALSE, reason |-> JStr(DeniedReason(tool_name))]
    ELSE IF ListTruthy(policy.allowed_tools) /\ ~InList(tool_name, policy.allowed_tools[1])
    THEN [allowed |-> FALSE, reason |-> JStr(DeniedReason(tool_name))]
    ELSE [allowed |-> TRUE, reason |-> JNull]

-----------------------------------------------------------------------------
(* stable_hash (src/utils.py): json.dumps of [name, args] with sorted keys *)
(* and compact separators, then sha256.  The digest is modelled by the     *)
(* payload it is computed from (sha256 taken as injective).                *)

\* the argument keys of the model, in the order sort_keys puts them
ArgKeyOrder == <<"a", "b">>

\* argument mappings: sequences of <<key, value>> in insertion order
ArgsSet == { <<>>, << <<"a", JInt(1)>> >> }

HasKey(args, k) == \E i \in 1..Len(args) : args[i][1] = k
ValOf(args, k) == args[CHOOSE i \in 1..Len(args) : args[i][1] = k][2]

\* values json.dumps meets beyond the JSON ones: a nested dict (its items in insertion
\* order, its keys str or int), a tuple, and an object json cannot serialize, which
\* default=str turns into str(object)
PyDict(items) == [t |-> "dict", v |-> items]
PyTuple(items) == [t |-> "tuple", v |-> items]
PyOther(text) == [t |-> "other", v |-> text]

\* the keys of nested dicts, in the order sorted() puts the keys of one dict
\* (a dict with int and str keys makes sorted() raise and is not drawn)
DictKeyOrder == <<JInt(1), JInt(2), JStr("1"), JStr("k1"), JStr("k2")>>

\* a dict key as json.dumps writes it: a str as is, an int as str(int)
json_dumps_key(k) ==
    IF k.t = "int" THEN "\"" \o ToString(k.v) \o "\"" ELSE "\"" \o k.v \o "\""

RECURSIVE json_dumps_value(_), json_dumps_seq(_, _), json_dumps_dict(_, _, _)

\* the items of a nested dict with sort_keys=True
json_dumps_dict(items, i, first) ==
    IF i > Len(DictKeyOrder) THEN ""
    ELSE LET k == DictKeyOrder[i] IN
         IF HasKey(items, k)
         THEN (IF first THEN "" ELSE ",") \o json_dumps_key(k) \o ":"
              \o json_dumps_value(ValOf(items, k)) \o json_dumps_dict(items, i + 1, FALSE)
         ELSE json_dumps_dict(items, i + 1, first)

json_dumps_seq(items, i) ==
    IF i > Len(items) THEN ""
    ELSE (IF i = 1 THEN "" ELSE ",") \o json_dumps_value(items[i])
         \o json_dumps_seq(items, i + 1)

json_dumps_value(j) ==
    CASE j.t = "int"   -> ToString(j.v)
      [] j.t = "str"   -> "\"" \o j.v \o "\""
      [] j.t = "bool"  -> IF j.v THEN "true" ELSE "false"
      [] j.t = "null"  -> "null"
      [] j.t = "arr"   -> "[" \o json_dumps_seq(j.v, 1) \o "]"
      [] j.t = "tuple" -> "[" \o json_dumps_seq(j.v, 1) \o "]"
      [] j.t = "dict"  -> "{" \o json_dumps_dict(j.v, 1, TRUE) \o "}"
      [] j.t = "other" -> "\"" \o j.v \o "\""


\* the items of the argument mapping with sort_keys=True
RECURSIVE json_dumps_items(_, _, _)
json_dumps_items(args, i, first) ==
    IF i > Len(ArgKeyOrder) THEN ""
    ELSE LET k == ArgKeyOrder[i] IN
         IF HasKey(args, k)
         THEN (IF first THEN "" ELSE ",") \o "\"" \o k \o "\":"
              \o json_dumps_value(ValOf(args, k)) \o json_dumps_items(args, i + 1, FALSE)
         ELSE json_dumps_items(args, i + 1, first)

\* the items of a mapping in insertion order, as json.dumps writes them without
\* sort_keys
RECURSIVE json_dumps_unsorted(_, _)
json_dumps_unsorted(args, i) ==
    IF i > Len(args) THEN ""
    ELSE (IF i = 1 THEN "" ELSE ",") \o "\"" \o args[i][1] \o "\":"
         \o json_dumps_value(args[i][2]) \o json_dumps_unsorted(args, i + 1)

\* a fingerprint that forgets sort_keys
stable_hash_unsorted(tool_name, args) ==
    "[\"" \o tool_name \o "\",{" \o json_dumps_unsorted(args, 1) \o "}]"

stable_hash(tool_name, args) ==
    "[\"" \o tool_name \o "\",{" \o json_dumps_items(args, 1, TRUE) \o "}]"

Signatures == { stable_hash(t, a) : t \in Tools, a \in ArgsSet }

-----------------------------------------------------------------------------
(* FaultProfile (src/type.py).  error_rate is a rational num/den.          *)

RECURSIVE SetToSeq(_)
SetToSeq(S) == IF S = {} THEN <<>>
               ELSE LET x == CHOOSE y \in S : TRUE IN <<x>> \o SetToSeq(S \ {x})

\* the texts FaultProfile.rng hashes, in a fixed order
HashInputs == SetToSeq({ ToString(s) \o ":" \o k : s \in Seeds, k \in Signatures })

\* int.from_bytes(sha256(text).digest()[:8]): a fixed injective numbering of the texts
Sha256Table == [text \in { HashInputs[i] : i \in 1..Len(HashInputs) } |->
                  CHOOSE i \in 1..Len(HashInputs) : HashInputs[i] = text]
Sha256Int(text) == Sha256Table[text]

\* a call counter a stateful generator would depend on
ProbeCalls == probe.calls

fault_rng_reused(profile, key) ==
    RandomSeeded(Sha256Int(ToString(profile.seed) \o ":" \o key) + ProbeCalls)

\* FaultProfile.rng: a fresh generator per (seed, key)
fault_rng(profile, key) ==
    RandomSeeded(Sha256Int(ToString(profile.seed) \o ":" \o key))

\* int(r.uniform(min, max)) with r.random() = RngNext(state) / RngMod
sample_latency(profile, key) ==
    LET u == RngNext(fault_rng(profile, key)) IN
    (profile.min_latency_ms * RngMod
        + (profile.max_latency_ms - profile.min_latency_ms) * u) \div RngMod

\* a profile that never injects a failure
should_error_never(profile, key) == FALSE

\* an error decision with the comparison the wrong way round
should_error_inverted(profile, key) ==
    IF profile.error_rate.num <= 0 THEN FALSE
    ELSE LET u == RngNext(fault_rng(profile, key)) IN
         u * profile.error_rate.den >= profile.error_rate.num * RngMod

should_error(profile, key) ==
    IF profile.error_rate.num <= 0 THEN FALSE
    ELSE LET u == RngNext(fault_rng(profile, key)) IN
         u * profile.error_rate.den < profile.error_rate.num * RngMod

-----------------------------------------------------------------------------
(* Schema nodes.  A mapping node is a function from JSON-Schema keywords   *)
(* to their values: "type" is a JSON value (JStr, or JArr for a type       *)
(* list), numeric constraints are integers, "properties" is a sequence of  *)
(* <<name, schema>> in declaration order, "items" a schema, "oneOf",       *)
(* "anyOf", "allOf" sequences of schemas, "example"/"default" JSON values, *)
(* "enum" a sequence of JSON values, "$ref" a record [prefix, name].       *)

NonMapping == ("@nonmapping" :> TRUE)
IsMapping(schema) == "@nonmapping" \notin DOMAIN schema

JNum(n, d) == [t |-> "num", n |-> n, d |-> d]
Ret(val, r) == [val |-> val, rng |-> r, exc |-> JNull]
Raise(msg, r) == [val |-> JNull, rng |-> r, exc |-> JStr(msg)]
Choice(seq, r) == seq[1 + (r % Len(seq))]
Max(a, b) == IF a >= b THEN a ELSE b
Min(a, b) == IF a <= b THEN a ELSE b

StringSchema == ("type" :> JStr("string"))
IntSchema(low, high) ==
    ("type" :> JStr("integer")) @@ ("minimum" :> low) @@ ("maximum" :> high)

EmptyRange == "empty range for randrange()"
EmptyChoice == "Cannot choose from an empty sequence"

-----------------------------------------------------------------------------
(* DataGenerator of src/generator.py (the class sandbox.py imports)        *)

DefaultMaximum == 1000

G_string(format, r) ==
    IF format = "date-time" THEN Ret(JStr("2025-01-01T00:00:00Z"), r)
    ELSE IF format = "uuid"
    THEN LET r1 == RngNext(r) IN Ret(JStr("hex_" \o ToString(r1)), r1)
    ELSE LET r1 == RngNext(r) IN Ret(JStr("s_" \o ToString(r1 % 1000000)), r1)

RECURSIVE G_generate(_, _), G_items(_, _, _, _), G_properties(_, _, _, _),
          G_required(_, _, _, _, _)

G_generate(schema, r) ==
    IF ~IsMapping(schema) THEN Ret(JNull, r)
    ELSE LET t == Get(schema, "type", JStr("object")) IN
    IF t = JStr("string") THEN G_string(Get(schema, "format", ""), r)
    ELSE IF t = JStr("integer")
    THEN LET low == Get(schema, "minimum", 0)
             high == Get(schema, "maximum", DefaultMaximum) IN
         IF low > high THEN Raise(EmptyRange, r)
         ELSE LET r1 == RngNext(r) IN Ret(JInt(RandintOf(r1, low, high)), r1)
    ELSE IF t = JStr("number")
    THEN LET low == Get(schema, "minimum", 0)
             high == Get(schema, "maximum", DefaultMaximum)
             r1 == RngNext(r) IN
         Ret(JNum(low * RngMod + (high - low) * r1, RngMod), r1)
    ELSE IF t = JStr("boolean")
    THEN LET r1 == RngNext(r) IN Ret(JBool(r1 % 2 = 1), r1)
    ELSE IF t = JStr("array")
    THEN LET items == Get(schema, "items", StringSchema)
             m == Get(schema, "minItems", 1)
             n == Max(1, Min(IF m = 0 THEN 1 ELSE m, 3)) IN
         G_items(items, n, r, <<>>)
    ELSE LET properties == Get(schema, "properties", <<>>)
             required == Get(schema, "required", <<>>)
             filled == G_properties(properties, 1, r, <<>>) IN
         IF filled.exc # JNull THEN filled
         ELSE G_required(properties, required, 1, filled.rng, filled.val.v)

\* [self.generate(items) for _ in range(n)]
G_items(items, n, r, acc) ==
    IF n = 0 THEN Ret(JArr(acc), r)
    ELSE LET one == G_generate(items, r) IN
         IF one.exc # JNull THEN one
         ELSE G_items(items, n - 1, one.rng, Append(acc, one.val))

\* for key, ps in properties.items(): output[key] = self.generate(ps)
G_properties(properties, i, r, output) ==
    IF i > Len(properties) THEN Ret(JObj(output), r)
    ELSE LET one == G_generate(properties[i][2], r) IN
         IF one.exc # JNull THEN one
         ELSE G_properties(properties, i + 1, one.rng,
                           (properties[i][1] :> one.val) @@ output)

\* for key in required: output.setdefault(key, self.generate(properties.get(key, string)))
\* (the default is generated, and the generator advanced, also when the key is present)
G_required(properties, required, i, r, output) ==
    IF i > Len(required) THEN Ret(JObj(output), r)
    ELSE LET key == required[i]
             declared == { j \in 1..Len(properties) : properties[j][1] = key }
             ps == IF declared = {} THEN StringSchema
                   ELSE properties[CHOOSE j \in declared : TRUE][2]
             one == G_generate(ps, r) IN
         IF one.exc # JNull THEN one
         ELSE G_required(properties, required, i + 1, one.rng,
                         IF key \in DOMAIN output THEN output
                         ELSE (key :> one.val) @@ output)

-----------------------------------------------------------------------------
(* SchemaResolver (utils.resolve_schema) and the DataGenerator of          *)
(* src/data_generator.py (the class the demo wires in through its shim)    *)

RefPrefix == "#/components/schemas/"
Ref(name) == ("$ref" :> [prefix |-> RefPrefix, name |-> name])

resolve_schema(open_api_spec, schema) ==
    IF ~IsMapping(schema) THEN schema
    ELSE IF "$ref" \notin DOMAIN schema THEN schema
    ELSE IF schema["$ref"].prefix = RefPrefix /\ schema["$ref"].name \in DOMAIN open_api_spec
    THEN open_api_spec[schema["$ref"].name]
    ELSE schema

sensible_default ==
    JObj(("value" :> JNull) @@
         ("note" :> JStr("auto-generated fallback; please refine via schema examples/defaults/enums")))

Alphabet == <<"a", "b", "c", "d", "e", "f", "g", "h", "i", "j", "k", "l", "m",
              "n", "o", "p", "q", "r", "s", "t", "u", "v", "w", "x", "y", "z">>

DepthLimit == 6

DG_string(fmt, r) ==
    IF fmt = "date-time" THEN Ret(JStr("2025-01-01T00:00:00Z"), r)
    ELSE IF fmt = "uuid"
    THEN LET r1 == RngNext(r) IN Ret(JStr("hex_" \o ToString(r1)), r1)
    ELSE IF fmt = "date" THEN Ret(JStr("2025-01-01"), r)
    ELSE IF fmt = "email"
    THEN LET r1 == RngNext(r) IN
         Ret(JStr("user" \o ToString(RandintOf(r1, 1000, 9999)) \o "@example.com"), r1)
    ELSE IF fmt \in {"uri", "url"}
    THEN LET r1 == RngNext(r) IN
         Ret(JStr("https://api.example.com/resource/" \o ToString(RandintOf(r1, 1, 9999))), r1)
    ELSE LET r1 == RngNext(r) IN Ret(JStr("s_" \o ToString(r1 % 1000000)), r1)

\* next((x for x in t if x != "null"), "null")
RECURSIVE FirstNonNull(_)
FirstNonNull(ts) ==
    IF ts = <<>> THEN JStr("null")
    ELSE IF Head(ts) # JStr("null") THEN Head(ts) ELSE FirstNonNull(Tail(ts))

\* "".join(self.rng.choice(alphabet) for _ in range(n))
RECURSIVE DG_letters(_, _, _)
DG_letters(n, r, acc) ==
    IF n <= 0 THEN Ret(JStr(acc), r)
    ELSE LET r1 == RngNext(r) IN DG_letters(n - 1, r1, acc \o Choice(Alphabet, r1))

RECURSIVE generate(_, _, _, _), DG_all_of(_, _, _, _, _, _),
          DG_properties(_, _, _, _, _, _), DG_items(_, _, _, _, _, _)

generate(open_api_spec, schema, depth, r) ==
    IF ~IsMapping(schema) THEN Ret(JNull, r)
    ELSE IF depth > DepthLimit THEN Ret(JNull, r)
    ELSE IF "example" \in DOMAIN schema THEN Ret(schema["example"], r)
    ELSE IF "default" \in DOMAIN schema THEN Ret(schema["default"], r)
    ELSE IF "enum" \in DOMAIN schema /\ schema["enum"] # <<>>
    THEN LET r1 == RngNext(r) IN Ret(Choice(schema["enum"], r1), r1)
    ELSE
    LET sch == IF "$ref" \in DOMAIN schema
               THEN resolve_schema(open_api_spec, schema) ELSE schema
        t0 == Get(sch, "type", JNull)
        t == IF t0.t = "arr" THEN FirstNonNull(t0.v) ELSE t0
    IN
    IF t0.t = "arr" /\ t = JStr("null") THEN Ret(JNull, r)
    ELSE IF ~Truthy(t) /\ "oneOf" \in DOMAIN sch
    THEN IF sch["oneOf"] = <<>> THEN Raise(EmptyChoice, r)
         ELSE LET r1 == RngNext(r) IN
              generate(open_api_spec,
                       resolve_schema(open_api_spec, Choice(sch["oneOf"], r1)),
                       depth + 1, r1)
    ELSE IF ~Truthy(t) /\ "anyOf" \in DOMAIN sch
    THEN IF sch["anyOf"] = <<>> THEN Raise(EmptyChoice, r)
         ELSE LET r1 == RngNext(r) IN
              generate(open_api_spec,
                       resolve_schema(open_api_spec, Choice(sch["anyOf"], r1)),
                       depth + 1, r1)
    ELSE IF ~Truthy(t) /\ "allOf" \in DOMAIN sch
    THEN DG_all_of(open_api_spec, sch["allOf"], 1, depth, r, <<>>)
    ELSE IF t = JStr("object") \/ "properties" \in DOMAIN sch
    THEN LET filled == DG_properties(open_api_spec, Get(sch, "properties", <<>>),
                                     1, depth, r, <<>>)
             required == Get(sch, "required", <<>>)
             missing == { required[i] : i \in 1..Len(required) } IN
         IF filled.exc # JNull THEN filled
         ELSE Ret(JObj([name \in DOMAIN filled.val.v \cup missing |->
                          IF name \in DOMAIN filled.val.v THEN filled.val.v[name]
                          ELSE sensible_default]),
                  filled.rng)
    ELSE IF t = JStr("array")
    THEN LET items == resolve_schema(open_api_spec, Get(sch, "items", StringSchema))
             min_items == Get(sch, "minItems", 1)
             max_items == Get(sch, "maxItems", Max(1, min_items + 2))
             high == Min(max_items, min_items + 2) IN
         IF min_items > high THEN Raise(EmptyRange, r)
         ELSE LET r1 == RngNext(r) IN
              DG_items(open_api_spec, items, RandintOf(r1, min_items, high), depth, r1, <<>>)
    ELSE IF t = JStr("string")
            \/ (t = JNull /\ "properties" \notin DOMAIN sch /\ "items" \notin DOMAIN sch)
    THEN LET fmt == Get(sch, "format", "")
             min_len == Get(sch, "minLength", 1)
             max_len == Get(sch, "maxLength", Max(8, min_len))
             pattern == Get(sch, "pattern", "") IN
         IF pattern # "" THEN Ret(JStr("match:" \o pattern), r)
         ELSE IF fmt # "" THEN DG_string(fmt, r)
         ELSE IF min_len > max_len THEN Raise(EmptyRange, r)
         ELSE LET r1 == RngNext(r) IN DG_letters(RandintOf(r1, min_len, max_len), r1, "")
    ELSE IF t = JStr("integer")
    THEN LET low == Get(sch, "minimum", 0)
             high == Get(sch, "maximum", Max(low, DefaultMaximum)) IN
         IF low > high THEN Raise(EmptyRange, r)
         ELSE LET r1 == RngNext(r) IN Ret(JInt(RandintOf(r1, low, high)), r1)
    ELSE IF t = JStr("number")
    THEN LET low == Get(sch, "minimum", 0)
             high == Get(sch, "maximum", Max(low, DefaultMaximum))
             r1 == RngNext(r) IN
         Ret(JNum(low * RngMod + (high - low) * r1, RngMod), r1)
    ELSE IF t = JStr("boolean")
    THEN LET r1 == RngNext(r) IN Ret(JBool(r1 % 2 = 1), r1)
    ELSE Ret(sensible_default, r)

\* for part in schema["allOf"]: ... accumulator.update(example)
DG_all_of(open_api_spec, parts, i, depth, r, accumulator) ==
    IF i > Len(parts) THEN Ret(JObj(accumulator), r)
    ELSE LET example == generate(open_api_spec, resolve_schema(open_api_spec, parts[i]),
                                 depth + 1, r) IN
         IF example.exc # JNull THEN example
         ELSE DG_all_of(open_api_spec, parts, i + 1, depth, example.rng,
                        IF example.val.t = "obj" THEN example.val.v @@ accumulator
                        ELSE accumulator)

\* for name, sub_property in properties.items(): output[name] = self.generate(...)
DG_properties(open_api_spec, properties, i, depth, r, output) ==
    IF i > Len(properties) THEN Ret(JObj(output), r)
    ELSE LET one == generate(open_api_spec, resolve_schema(open_api_spec, properties[i][2]),
                             depth + 1, r) IN
         IF one.exc # JNull THEN one
         ELSE DG_properties(open_api_spec, properties, i + 1, depth, one.rng,
                            (properties[i][1] :> one.val) @@ output)

\* [self.generate(items, depth + 1) for _ in range(length)]
DG_items(open_api_spec, items, n, depth, r, acc) ==
    IF n <= 0 THEN Ret(JArr(acc), r)
    ELSE LET one == generate(open_api_spec, items, depth + 1, r) IN
         IF one.exc # JNull THEN one
         ELSE DG_items(open_api_spec, items, n - 1, depth, one.rng, Append(acc, one.val))

-----------------------------------------------------------------------------
(* MockedResponse, Fixture, FixtureMetaData (src/type.py)                  *)

MockedResponse(ok, data, error, latency_ms) ==
    [ok |-> ok, data |-> data, error |-> error, latency_ms |-> latency_ms]

\* MockedResponse.to_json: dataclasses.asdict
response_to_json(response) ==
    ("ok" :> response.ok) @@ ("data" :> response.data) @@ ("error" :> response.error)
        @@ ("latency_ms" :> response.latency_ms)

MetaRequired == {"created_at", "signature"}
MetaFields == {"created_at", "signature", "seed", "profile", "policy_hash", "notes"}

\* FixtureMetaData(created_at, signature, seed) with the other fields at their default None
FixtureMetaData(created_at, signature, seed) ==
    [f \in MetaFields |->
        CASE f = "created_at" -> JStr(created_at)
          [] f = "signature"  -> JStr(signature)
          [] f = "seed"       -> JStr(seed)
          [] OTHER            -> JNull]

Fixture(ok, data, error, latency_ms, metadata) ==
    [ok |-> ok, data |-> data, error |-> error, latency_ms |-> latency_ms,
     metadata |-> metadata]

\* Fixture.to_json; metadata is JNull (None) or the dataclass as a mapping
to_json(fixture) ==
    ("ok" :> fixture.ok) @@ ("data" :> fixture.data) @@ ("error" :> fixture.error)
        @@ ("latency_ms" :> fixture.latency_ms)
        @@ ("metadata" :> IF fixture.metadata # JNull THEN JObj(fixture.metadata) ELSE JNull)

\* FixtureMetaData(**metadata) raises TypeError on an unknown or a missing required key
MetaKeysOk(metadata) ==
    /\ metadata.t = "obj"
    /\ DOMAIN metadata.v \subseteq MetaFields
    /\ MetaRequired \subseteq DOMAIN metadata.v

\* Fixture.load_from_json: [fixture, exc]
load_from_json(doc) ==
    LET metadata == Get(doc, "metadata", JNull) IN
    IF Truthy(metadata) /\ ~MetaKeysOk(metadata)
    THEN [fixture |-> JNull, exc |-> JStr("TypeError: FixtureMetaData.__init__()")]
    ELSE [fixture |->
            Fixture(Get(doc, "ok", JNull), Get(doc, "data", JNull), Get(doc, "error", JNull),
                    Get(doc, "latency_ms", JInt(0)),
                    IF Truthy(metadata)
                    THEN [f \in MetaFields |-> Get(metadata.v, f, JNull)]
                    ELSE JNull),
          exc |-> JNull]

-----------------------------------------------------------------------------
(* FixtureStore (src/fixtures.py): the directory tree as a map from path   *)
(* to file content.  A file holds the JSON value json.dump wrote, which is *)
(* what json.load reads back: dict keys become strings, tuples become      *)
(* lists; a value json cannot serialize makes json.dump raise TypeError    *)
(* after open("w") has truncated the file, which is left unparsable.       *)

NoFile == [absent |-> TRUE]
CorruptFile == [corrupt |-> TRUE]

RECURSIVE JsonSerializable(_), json_value(_), json_dict_items(_, _)

JsonSerializable(j) ==
    CASE j.t = "other" -> FALSE
      [] j.t \in {"arr", "tuple"} -> \A i \in 1..Len(j.v) : JsonSerializable(j.v[i])
      [] j.t = "dict" -> \A i \in 1..Len(j.v) : JsonSerializable(j.v[i][2])
      [] j.t = "obj" -> \A k \in DOMAIN j.v : JsonSerializable(j.v[k])
      [] OTHER -> TRUE

\* the items of a dict as written with sort_keys=True and read back: str keys
json_dict_items(items, i) ==
    IF i > Len(DictKeyOrder) THEN <<>>
    ELSE LET k == DictKeyOrder[i] IN
         IF HasKey(items, k)
         THEN << <<JStr(IF k.t = "int" THEN ToString(k.v) ELSE k.v),
                   json_value(ValOf(items, k))>> >> \o json_dict_items(items, i + 1)
         ELSE json_dict_items(items, i + 1)

\* json.load(json.dump(j)) for a serializable value
json_value(j) ==
    CASE j.t \in {"arr", "tuple"} -> JArr([i \in 1..Len(j.v) |-> json_value(j.v[i])])
      [] j.t = "dict" -> PyDict(json_dict_items(j.v, 1))
      [] j.t = "obj" -> JObj([k \in DOMAIN j.v |-> json_value(j.v[k])])
      [] OTHER -> j

json_dump(payload) ==
    IF \A k \in DOMAIN payload : JsonSerializable(payload[k])
    THEN [json |-> [k \in DOMAIN payload |-> json_value(payload[k])]]
    ELSE CorruptFile
json_load(file) == file.json

\* utils.safe_mkdir returns what Path.mkdir returns, which is None; under
\* cfg.mkdir = "returns_path" it is taken to return the directory it made, which is
\* what its annotation and its callers expect
safe_mkdir(path) == IF cfg.mkdir = "returns_path" THEN path ELSE JNull

\* fixtures/{tool_name}/{signature}.json
get_path_for_fixture(tool_name, signature) == <<tool_name, signature \o ".json">>

\* FixtureStore._make_tool_dir and get_path_for_fixture: [path, exc]
FixtureStore_path(tool_name, signature) ==
    IF safe_mkdir(JStr("fixtures")) = JNull \/ safe_mkdir(JStr(tool_name)) = JNull
    THEN [path |-> JNull, exc |-> JStr("TypeError: unsupported operand type(s) for /: 'NoneType' and 'str'")]
    ELSE [path |-> get_path_for_fixture(tool_name, signature), exc |-> JNull]

FixturePaths == { get_path_for_fixture(t, stable_hash(t, a)) : t \in Tools, a \in ArgsSet }

\* a load that finds no file whatever the directory holds
FixtureStore_load_absent(dir, tool_name, signature) ==
    [found |-> FALSE, fixture |-> JNull, exc |-> JNull]

\* FixtureStore.load: [found, fixture, exc]
FixtureStore_load(dir, tool_name, signature) ==
    LET fixture_path == FixtureStore_path(tool_name, signature) IN
    IF fixture_path.exc # JNull
    THEN [found |-> FALSE, fixture |-> JNull, exc |-> fixture_path.exc]
    ELSE IF dir[fixture_path.path] = NoFile
    THEN [found |-> FALSE, fixture |-> JNull, exc |-> JNull]
    ELSE IF dir[fixture_path.path] = CorruptFile
    THEN [found |-> FALSE, fixture |-> JNull, exc |-> JStr("JSONDecodeError")]
    ELSE LET got == load_from_json(json_load(dir[fixture_path.path])) IN
         [found |-> got.exc = JNull, fixture |-> got.fixture, exc |-> got.exc]

\* a save that leaves the file as it was
FixtureStore_save_dropped(dir, tool_name, signature, fixture) == dir

\* FixtureStore.save: the directory after the write
FixtureStore_save(dir, tool_name, signature, fixture) ==
    LET path == FixtureStore_path(tool_name, signature) IN
    IF path.exc # JNull THEN dir
    ELSE [dir EXCEPT ![path.path] = json_dump(to_json(fixture))]

\* FixtureStore.save: the exception it raises, if any
FixtureStore_save_exc(tool_name, signature, fixture) ==
    LET path == FixtureStore_path(tool_name, signature) IN
    IF path.exc # JNull THEN path.exc
    ELSE IF json_dump(to_json(fixture)) = CorruptFile THEN JStr("TypeError: Object is not JSON serializable")
    ELSE JNull

-----------------------------------------------------------------------------
(* Recorder / Recording.save (src/recorder.py, src/type.py):               *)
(* recordings/{tool_id}.json                                               *)

RecordingPaths == { k \o ".json" : k \in Signatures }

\* the recording file: the mapping Recording.save writes
recording_dump(payload) == [json |-> payload]

\* a recorder that writes nothing
Recorder_record_nothing(dir, invocation, response) == dir

\* Recorder.record: Recording(...).save(self.output_dir)
Recorder_record(dir, invocation, response) ==
    [dir EXCEPT ![invocation.tool_id \o ".json"] =
        recording_dump(("id" :> JStr(invocation.tool_id)) @@ ("tool" :> JStr(invocation.tool_name))
                  @@ ("args" :> invocation.args) @@ ("response" :> JObj(response_to_json(response)))
                  @@ ("time" :> JStr(invocation.timestamp)))]

-----------------------------------------------------------------------------
(* Operation and APIOperationsRouter (src/type.py, src/api_ops_router.py)  *)

NoOp == [absent |-> TRUE]

Operation(name, result_schema) ==
    [name |-> name, param_schema |-> ("type" :> JStr("object")),
     result_schema |-> result_schema, description |-> "", version |-> "v1"]

\* the component schemas of the loaded OpenAPI document
SchemaTable == ("Id" :> IntSchema(1, 3))

\* the operations a caller may register
OpPool ==
    { Operation("X", IntSchema(1, 3)),
      Operation("X", IntSchema(5, 2)),
      Operation("X", ("oneOf" :> <<IntSchema(5, 2), IntSchema(1, 1)>>)),
      Operation("Y", IntSchema(1, 3)) }

UnknownOperation(name) == "Unknown operation: " \o name

\* a lookup that answers a placeholder operation for a name it does not know
get_op_default(registry, name) ==
    [found |-> TRUE,
     op |-> IF registry[name] = NoOp THEN Operation(name, ("type" :> JStr("object")))
            ELSE registry[name]]

\* get_op: [found, op]; a miss is the KeyError
get_op(registry, name) ==
    IF registry[name] = NoOp THEN [found |-> FALSE, op |-> NoOp]
    ELSE [found |-> TRUE, op |-> registry[name]]

-----------------------------------------------------------------------------
(* Sandbox (src/sandbox.py)                                                *)

SEED == 1337

\* generator.DataGenerator.__init__: random.Random(seed)
G_init(seed) == RandomSeeded(seed)

\* data_generator.DataGenerator.__init__: seed if seed else int(datetime.now().timestamp())
DG_init(seed, now) == RandomSeeded(IF seed # 0 THEN seed ELSE now)

\* cfg.dg = "none": no data_generator is passed and Sandbox builds generator.DataGenerator();
\* cfg.dg = "data_generator": the demo's shim around data_generator.DataGenerator(seed)
Sandbox_init_rng(c, now) ==
    IF c.dg = "none" THEN G_init(SEED) ELSE DG_init(c.seed, now)

\* self.data_generator.generate(op.result_schema)
Sandbox_generate(c, schema, r) ==
    IF c.dg = "none" THEN G_generate(schema, r)
    ELSE generate(SchemaTable, schema, 0, r)

\* str(time.time()): the reading only labels fixtures and recordings
Now == "1700000000.0"

NoResponse == [none |-> TRUE]
InjectedFailure == "Injected failure (simulated)."
\* the text of an exception raised without a message
KeyErrorStr_empty(message) == ""

\* str(KeyError(message))
KeyErrorStr(message) == "'" \o message \o "'"

Outcome(path, response, exc, slept, calls, dir, r, recs) ==
    [path |-> path, response |-> response, exc |-> exc, slept |-> slept,
     calls |-> calls, files |-> dir, rng |-> r, recordings |-> recs]

\* one call of Sandbox.invoke by orchestrator o: what it returns (or raises), the
\* collaborator methods it calls, the wait it makes and the stores it leaves behind
invoke(o, tool_name, args, record) ==
    LET timestamp == Now
        tool_id == stable_hash(tool_name, args)
        latency == sample_latency(cfg.fault, tool_id)
        pol == is_allowed(cfg.policy, tool_name)
        invocation == [tool_name |-> tool_name, args |-> args, tool_id |-> tool_id,
                       timestamp |-> timestamp]
        rec(response) == IF record THEN Recorder_record(recordings[o], invocation, response)
                         ELSE recordings[o]
        recCalls == IF record THEN {"record"} ELSE {}
        c0 == {"sample_latency", "is_allowed"}
        c1 == c0 \cup {"load"}
        c2 == c1 \cup {"get_op"}
        c3 == c2 \cup {"should_error"}
        cached == FixtureStore_load(files[o], tool_name, tool_id)
        found == get_op(ops[o], tool_name)
        persist(response) ==
            FixtureStore_save(files[o], tool_name, tool_id,
                Fixture(response.ok, response.data, response.error, response.latency_ms,
                        FixtureMetaData(timestamp, tool_id, ToString(cfg.fault.seed))))
    IN
    IF ~pol.allowed
    THEN LET response == MockedResponse(JBool(FALSE), JNull, pol.reason, JInt(0)) IN
         Outcome("denied", response, JNull, JNull, c0 \cup recCalls,
                 files[o], dg_rng[o], rec(response))
    ELSE IF cached.exc # JNull
    THEN Outcome("raised", NoResponse, cached.exc, JNull, c1,
                 files[o], dg_rng[o], recordings[o])
    ELSE IF cached.found
    THEN LET fx == cached.fixture
             first == IF Truthy(fx.latency_ms) THEN fx.latency_ms ELSE JInt(latency)
             lat == IF ~Truthy(first) THEN JInt(latency) ELSE first
             response == MockedResponse(fx.ok, fx.data, fx.error, lat) IN
         Outcome("hit", response, JNull, lat, c1 \cup recCalls,
                 files[o], dg_rng[o], rec(response))
    ELSE IF ~found.found
    THEN LET response == MockedResponse(JBool(FALSE), JNull,
                             JStr(KeyErrorStr(UnknownOperation(tool_name))), JInt(latency)) IN
         Outcome("unknown", response, JNull, JInt(latency), c2 \cup recCalls,
                 files[o], dg_rng[o], rec(response))
    ELSE IF should_error(cfg.fault, tool_id)
    THEN LET response == MockedResponse(JBool(FALSE), JNull, JStr(InjectedFailure),
                                        JInt(latency)) IN
         Outcome("injected", response, JNull, JInt(latency), c3 \cup {"save"} \cup recCalls,
                 persist(response), dg_rng[o], rec(response))
    ELSE LET g == Sandbox_generate(cfg, found.op.result_schema, dg_rng[o]) IN
         IF g.exc # JNull
         THEN Outcome("raised", NoResponse, g.exc, JInt(latency), c3 \cup {"generate"},
                      files[o], g.rng, recordings[o])
         ELSE LET response == MockedResponse(JBool(TRUE), g.val, JNull, JInt(latency)) IN
              Outcome("synth", response, JNull, JInt(latency),
                      c3 \cup {"generate", "save"} \cup recCalls,
                      persist(response), g.rng, rec(response))

SynthesisPaths == {"injected", "synth", "raised"}

\* a registration that binds the name again when it is already bound
register_op_overwrite(registry, op) ==
    [registry EXCEPT ![op.name] = op]

\* register_op: a duplicate name raises ValueError and leaves the registry as it was
register_op(registry, op) ==
    IF registry[op.name] # NoOp THEN registry
    ELSE [registry EXCEPT ![op.name] = op]

AlreadyRegistered(name) == "Operation already registered: " \o name

\* the exception register_op raises, JNull when it returns
register_op_exc(registry, op) ==
    IF registry[op.name] # NoOp THEN JStr(AlreadyRegistered(op.name)) ELSE JNull

-----------------------------------------------------------------------------
(* Configurations and initial states                                       *)

Policy(allowed_tools, unallowed_tools) ==
    [allowed_tools |-> allowed_tools, unallowed_tools |-> unallowed_tools]

FaultProfile(seed, min_latency_ms, max_latency_ms, error_rate) ==
    [seed |-> seed, min_latency_ms |-> min_latency_ms, max_latency_ms |-> max_latency_ms,
     error_rate |-> error_rate]

Rate(num) == [num |-> num, den |-> 2]
Rates == { Rate(-1), Rate(0), Rate(1), Rate(2) }

\* "Y" is on both lists, "X" on the allow list only
Policies == { Policy(SomeList(<<"X", "Y">>), SomeList(<<"Y">>)) }

Config(policy, seed, rate, dg) ==
    [policy |-> policy, fault |-> FaultProfile(seed, 0, 3, rate), seed |-> seed, dg |-> dg,
     mkdir |-> "returns_path"]

Configs == { Config(p, s, r, d) :
                p \in Policies, s \in {1}, r \in Rates, d \in {"none", "data_generator"} }

\* a fixture file a user may have dropped into the store before the run, and where
PreFile ==
    json_dump(("ok" :> JBool(FALSE)) @@ ("error" :> JStr("boom")) @@ ("latency_ms" :> JInt(0)))
PrePaths == { get_path_for_fixture(t, stable_hash(t, <<>>)) : t \in Tools }
NoDir == [p \in FixturePaths |-> NoFile]
PreDirs == {NoDir} \cup { [NoDir EXCEPT ![p] = PreFile] : p \in PrePaths }

NoCall == [path |-> "none"]
NoProbe == [calls |-> 0, kind |-> "none", arg |-> "", result |-> JNull, hashed |-> <<>>,
            exc |-> JNull, saved |-> [p \in FixturePaths |-> JNull],
            before |-> [n \in Tools |-> NoOp], first |-> [n \in Tools |-> NoOp],
            depth |-> 0, thread |-> [th \in {1, 2} |-> [pc |-> "idle"]],
            lat |-> [k \in Signatures |-> {}], err |-> [k \in Signatures |-> {}]]

InitWith(c, b, registry, dir) ==
    /\ cfg = c
    /\ built = b
    /\ ops = [o \in Orch |-> registry]
    /\ files = [o \in Orch |-> dir]
    /\ dg_rng = [o \in Orch |-> Sandbox_init_rng(c, b[o])]
    /\ clock = [o \in Orch |-> 0]
    /\ last = [o \in Orch |-> NoCall]
    /\ recordings = [o \in Orch |-> [p \in RecordingPaths |-> NoFile]]
    /\ firstSaved = [o \in Orch |-> [p \in FixturePaths |-> NoResponse]]
    /\ saveCount = [o \in Orch |-> [p \in FixturePaths |-> 0]]
    /\ missCount = [o \in Orch |-> [p \in FixturePaths |-> 0]]
    /\ unknownSeen = [o \in Orch |-> {}]
    /\ probe = NoProbe

\* "Y" is registered from the start, "X" is registered during the run
StartRegistry == [n \in Tools |-> IF n = "Y" THEN Operation("Y", IntSchema(1, 3)) ELSE NoOp]

\* the configurations the run may start from with a pre-filled store
PreConfigs == { c \in Configs : c.dg = "none" /\ c.fault.error_rate = Rate(0) }

Init ==
    \E c \in Configs, dir \in PreDirs :
        /\ dir # NoDir => c \in PreConfigs
        /\ InitWith(c, [o \in Orch |-> 7], StartRegistry, dir)

-----------------------------------------------------------------------------
(* Actions                                                                 *)

\* the orchestrators in S each run invoke(tool_name, args, record) to completion
InvokeSet(S, tool_name, args, record) ==
    LET p == get_path_for_fixture(tool_name, stable_hash(tool_name, args))
        out == [o \in S |-> invoke(o, tool_name, args, record)]
        saves == [o \in S |-> IF "save" \in out[o].calls THEN 1 ELSE 0]
    IN
    /\ \A o \in S : clock[o] < MaxCalls
    /\ files' = [o \in Orch |-> IF o \in S THEN out[o].files ELSE files[o]]
    /\ dg_rng' = [o \in Orch |-> IF o \in S THEN out[o].rng ELSE dg_rng[o]]
    /\ recordings' = [o \in Orch |-> IF o \in S THEN out[o].recordings ELSE recordings[o]]
    /\ clock' = [o \in Orch |-> IF o \in S THEN clock[o] + 1 ELSE clock[o]]
    /\ last' = [o \in Orch |->
                 IF o \in S
                 THEN [tool_name |-> tool_name, args |-> args,
                       tool_id |-> stable_hash(tool_name, args), record |-> record,
                       path |-> out[o].path, response |-> out[o].response,
                       exc |-> out[o].exc, slept |-> out[o].slept, calls |-> out[o].calls,
                       saves |-> saves[o],
                       had_file |-> files[o][p] # NoFile,
                       registered |-> ops[o][tool_name] # NoOp]
                 ELSE last[o]]
    /\ firstSaved' = [o \in Orch |->
                 IF o \in S /\ saves[o] = 1 /\ firstSaved[o][p] = NoResponse
                 THEN [firstSaved[o] EXCEPT ![p] = out[o].response]
                 ELSE firstSaved[o]]
    /\ saveCount' = [o \in Orch |->
                 IF o \in S THEN [saveCount[o] EXCEPT ![p] = @ + saves[o]] ELSE saveCount[o]]
    /\ missCount' = [o \in Orch |->
                 IF o \in S /\ "should_error" \in out[o].calls
                 THEN [missCount[o] EXCEPT ![p] = @ + 1] ELSE missCount[o]]
    /\ unknownSeen' = [o \in Orch |->
                 IF o \in S /\ out[o].path = "unknown" THEN unknownSeen[o] \cup {p}
                 ELSE unknownSeen[o]]
    /\ UNCHANGED <<cfg, built, ops, probe>>

Invoke(o, tool_name, args, record) == InvokeSet({o}, tool_name, args, record)

RegisterOp(o, op) ==
    /\ ops' = [ops EXCEPT ![o] = register_op(ops[o], op)]
    /\ UNCHANGED <<cfg, built, files, dg_rng, clock, last, recordings,
                   firstSaved, saveCount, missCount, unknownSeen, probe>>

Next ==
    \/ \E t \in Tools, a \in ArgsSet, r \in BOOLEAN : Invoke(1, t, a, r)
    \/ \E op \in OpPool : RegisterOp(1, op)

Spec == Init /\ [][Next]_vars

-----------------------------------------------------------------------------
(* Two orchestrators built independently from one configuration, with the  *)
(* same operations registered and empty fixture stores, driven in lockstep *)
(* with the same (operation, arguments).                                   *)

PairRegistry ==
    [n \in Tools |-> IF n = "X" THEN Operation("X", IntSchema(1, 3))
                     ELSE Operation("Y", IntSchema(1, 3))]

PairConfigs == { Config(p, s, r, d) :
                    p \in Policies, s \in Seeds, r \in {Rate(0), Rate(1)},
                    d \in {"none", "data_generator"} }

InitPair ==
    \E c \in PairConfigs, b \in [Orch -> BuildTimes] :
        InitWith(c, b, PairRegistry, NoDir)

NextPair == \E t \in Tools, a \in ArgsSet, r \in BOOLEAN : InvokeSet(Orch, t, a, r)

SpecPair == InitPair /\ [][NextPair]_vars

-----------------------------------------------------------------------------
(* Two orchestrators built at the same instant from one configuration,     *)
(* with the same operations registered and empty fixture stores, each      *)
(* invoked on its own: two runs of one orchestrator that differ only in    *)
(* the order of the calls.                                                 *)

OrderConfigs == { Config(p, 1, r, d) :
                    p \in Policies, r \in {Rate(0), Rate(1)},
                    d \in {"none", "data_generator"} }

InitOrder ==
    \E c \in OrderConfigs : InitWith(c, [o \in Orch |-> 7], PairRegistry, NoDir)

NextOrder == \E o \in Orch, t \in Tools, a \in ArgsSet : Invoke(o, t, a, FALSE)

SpecOrder == InitOrder /\ [][NextOrder]_vars

-----------------------------------------------------------------------------
(* Unit calls of the pure methods: FaultProfile.sample_latency,            *)
(* FaultProfile.should_error and Policy.is_allowed on a drawn profile or   *)
(* policy.  The methods assign nothing; probe keeps what each call         *)
(* returned.                                                               *)

ToolNames == {"X", "Y", "Z"}
AllowLists == { NoList, SomeList(<<>>), SomeList(<<"Y">>), SomeList(<<"X", "Y">>) }
DenyLists == { NoList, SomeList(<<>>), SomeList(<<"X">>), SomeList(<<"X", "Y">>) }

UnitConfigs ==
    { Config(Policy(al, dl), 1, Rate(0), "none") : al \in AllowLists, dl \in DenyLists }
    \cup { Config(Policy(NoList, NoList), s, r, "none") : s \in Seeds, r \in Rates }

InitUnit == \E c \in UnitConfigs : InitWith(c, [o \in Orch |-> 7], StartRegistry, NoDir)

UnchangedButProbe ==
    UNCHANGED <<cfg, built, ops, files, dg_rng, clock, last, recordings,
                firstSaved, saveCount, missCount, unknownSeen>>

CallSampleLatency(key) ==
    /\ probe.calls < MaxCalls
    /\ probe' = [probe EXCEPT !.calls = @ + 1, !.kind = "sample_latency", !.arg = key,
                              !.result = JInt(sample_latency(cfg.fault, key)),
                              !.lat[key] = @ \cup {sample_latency(cfg.fault, key)}]
    /\ UnchangedButProbe

CallShouldError(key) ==
    /\ probe.calls < MaxCalls
    /\ probe' = [probe EXCEPT !.calls = @ + 1, !.kind = "should_error", !.arg = key,
                              !.result = JBool(should_error(cfg.fault, key)),
                              !.err[key] = @ \cup {should_error(cfg.fault, key)}]
    /\ UnchangedButProbe

CallIsAllowed(tool_name) ==
    /\ probe.calls < MaxCalls
    /\ probe' = [probe EXCEPT !.calls = @ + 1, !.kind = "is_allowed", !.arg = tool_name,
                              !.result = is_allowed(cfg.policy, tool_name)]
    /\ UnchangedButProbe

NextUnit ==
    \/ \E k \in Signatures : CallSampleLatency(k)
    \/ \E k \in Signatures : CallShouldError(k)
    \/ \E n \in ToolNames : CallIsAllowed(n)

SpecUnit == InitUnit /\ [][NextUnit]_vars

-----------------------------------------------------------------------------
(* Unit calls of stable_hash on drawn argument mappings; probe.hashed      *)
(* keeps the latest two calls, newest first.                               *)

HashArgs ==
    { <<>>,
      << <<"a", JInt(1)>> >>,
      << <<"a", JInt(2)>> >>,
      << <<"b", JInt(1)>> >>,
      << <<"a", JInt(1)>>, <<"b", JInt(2)>> >>,
      << <<"b", JInt(2)>>, <<"a", JInt(1)>> >>,
      << <<"a", PyDict(<< <<JStr("k1"), JInt(1)>>, <<JStr("k2"), JInt(2)>> >>)>> >>,
      << <<"a", PyDict(<< <<JStr("k2"), JInt(2)>>, <<JStr("k1"), JInt(1)>> >>)>> >>,
      << <<"a", PyDict(<< <<JInt(2), JInt(0)>>, <<JInt(1), JInt(0)>> >>)>> >>,
      << <<"a", PyDict(<< <<JInt(1), JInt(0)>>, <<JInt(2), JInt(0)>> >>)>> >>,
      << <<"a", PyDict(<< <<JInt(1), JInt(1)>> >>)>> >>,
      << <<"a", PyDict(<< <<JStr("1"), JInt(1)>> >>)>> >>,
      << <<"a", JArr(<<JInt(1), JInt(2)>>)>> >>,
      << <<"a", JArr(<<JInt(2), JInt(1)>>)>> >>,
      << <<"a", PyTuple(<<JInt(1), JInt(2)>>)>> >>,
      << <<"a", JStr("1")>> >>,
      << <<"a", PyOther("1")>> >>,
      << <<"a", JBool(TRUE)>> >>,
      << <<"a", JNull>> >> }

InitHash ==
    \E c \in { Config(Policy(NoList, NoList), 1, Rate(0), "none") } :
        InitWith(c, [o \in Orch |-> 7], StartRegistry, NoDir)

CallStableHash(tool_name, args) ==
    /\ probe.calls < MaxCalls
    /\ probe' = [probe EXCEPT
                    !.calls = @ + 1, !.kind = "stable_hash", !.arg = tool_name,
                    !.result = JStr(stable_hash(tool_name, args)),
                    !.hashed = <<[tool_name |-> tool_name, args |-> args,
                                  tool_id |-> stable_hash(tool_name, args)]>>
                               \o (IF @ = <<>> THEN <<>> ELSE <<@[1]>>)]
    /\ UnchangedButProbe

NextHash == \E t \in Tools, a \in HashArgs : CallStableHash(t, a)

SpecHash == InitHash /\ [][NextHash]_vars

-----------------------------------------------------------------------------
(* Unit calls of FixtureStore.save and FixtureStore.load on the store of   *)
(* orchestrator 1.  probe.saved keeps, per path, the fixture of the latest *)
(* save that returned.                                                     *)

StoreConfigs ==
    { [Config(Policy(NoList, NoList), 1, Rate(0), "none") EXCEPT !.mkdir = m] :
        m \in {"returns_none", "returns_path"} }

StoreKeys == { <<t, stable_hash(t, a)>> : t \in Tools, a \in ArgsSet }

StoreFixtures ==
    { Fixture(JBool(TRUE), JObj(("id" :> JInt(1))), JNull, JInt(2),
              FixtureMetaData(Now, "s", "1")),
      Fixture(JBool(FALSE), JNull, JStr("boom"), JInt(0), JNull),
      Fixture(JBool(TRUE), PyDict(<< <<JInt(1), JInt(1)>> >>), JNull, JInt(0), JNull),
      Fixture(JBool(TRUE), PyOther("p"), JNull, JInt(0), JNull) }

InitStore == \E c \in StoreConfigs : InitWith(c, [o \in Orch |-> 7], StartRegistry, NoDir)

StoreSave(tool_name, signature, fixture) ==
    /\ probe.calls < MaxCalls
    /\ files' = [files EXCEPT ![1] = FixtureStore_save(files[1], tool_name, signature, fixture)]
    /\ probe' = [probe EXCEPT
                    !.calls = @ + 1, !.kind = "save",
                    !.arg = get_path_for_fixture(tool_name, signature),
                    !.result = JNull,
                    !.exc = FixtureStore_save_exc(tool_name, signature, fixture),
                    !.saved[get_path_for_fixture(tool_name, signature)] =
                        IF FixtureStore_save_exc(tool_name, signature, fixture) = JNull
                        THEN fixture ELSE @]
    /\ UNCHANGED <<cfg, built, ops, dg_rng, clock, last, recordings,
                   firstSaved, saveCount, missCount, unknownSeen>>

StoreLoad(tool_name, signature) ==
    /\ probe.calls < MaxCalls
    /\ probe' = [probe EXCEPT
                    !.calls = @ + 1, !.kind = "load",
                    !.arg = get_path_for_fixture(tool_name, signature),
                    !.result = FixtureStore_load(files[1], tool_name, signature).fixture,
                    !.exc = FixtureStore_load(files[1], tool_name, signature).exc]
    /\ UnchangedButProbe

NextStore ==
    \/ \E k \in StoreKeys, f \in StoreFixtures : StoreSave(k[1], k[2], f)
    \/ \E k \in StoreKeys : StoreLoad(k[1], k[2])

SpecStore == InitStore /\ [][NextStore]_vars

-----------------------------------------------------------------------------
(* Unit calls of APIOperationsRouter.register_op and get_op on the router  *)
(* of orchestrator 1, starting from an empty registry.  probe.before is    *)
(* the registry the call found, probe.first keeps per name the operation   *)
(* of the first register_op that returned.                                 *)

InitRouter ==
    InitWith(Config(Policy(NoList, NoList), 1, Rate(0), "none"),
             [o \in Orch |-> 7], [n \in Tools |-> NoOp], NoDir)

CallRegisterOp(op) ==
    /\ probe.calls <= MaxCalls
    /\ ops' = [ops EXCEPT ![1] = register_op(ops[1], op)]
    /\ probe' = [probe EXCEPT
                    !.calls = @ + 1, !.kind = "register_op", !.arg = op.name,
                    !.result = op,
                    !.exc = register_op_exc(ops[1], op),
                    !.before = ops[1],
                    !.first[op.name] =
                        IF register_op_exc(ops[1], op) = JNull THEN op ELSE @]
    /\ UNCHANGED <<cfg, built, files, dg_rng, clock, last, recordings,
                   firstSaved, saveCount, missCount, unknownSeen>>

CallGetOp(name) ==
    /\ probe.calls <= MaxCalls
    /\ probe' = [probe EXCEPT
                    !.calls = @ + 1, !.kind = "get_op", !.arg = name,
                    !.result = get_op(ops[1], name),
                    !.exc = IF get_op(ops[1], name).found THEN JNull
                            ELSE JStr(UnknownOperation(name)),
                    !.before = ops[1]]
    /\ UnchangedButProbe

NextRouter ==
    \/ \E op \in OpPool : CallRegisterOp(op)
    \/ \E n \in Tools : CallGetOp(n)

SpecRouter == InitRouter /\ [][NextRouter]_vars

-----------------------------------------------------------------------------
(* Unit calls of the two generators' generate on the generator object of   *)
(* orchestrator 1, whose random stream (dg_rng) carries over from call to  *)
(* call: data_generator.DataGenerator.generate(open_api_spec, schema,      *)
(* depth) over a schema table with self-referential entries, and           *)
(* generator.DataGenerator.generate(schema).                               *)

ObjectSchema(properties, required) ==
    ("type" :> JStr("object")) @@ ("properties" :> properties) @@ ("required" :> required)
MinimumOnly(low) == ("type" :> JStr("integer")) @@ ("minimum" :> low)
IdObject == ObjectSchema(<< <<"id", IntSchema(1, 1)>> >>, <<"id">>)

\* an object whose property refers to the table entry with an example
HolderOfFixed == ObjectSchema(<< <<"f", Ref("Fixed")>> >>, <<>>)

\* Node: an object whose property refers to Node; Padded: the same with a required
\* key that has no property; List: an array whose items refer to List; Fixed, Preset
\* and Pick: integer schemas that declare an example, a default and an enum
GenTable ==
    ("Node" :> ObjectSchema(<< <<"next", Ref("Node")>> >>, <<>>)) @@
    ("Padded" :> ObjectSchema(<< <<"next", Ref("Padded")>> >>, <<"next", "extra">>)) @@
    ("List" :> (("type" :> JStr("array")) @@ ("items" :> Ref("List")) @@
                ("minItems" :> 1) @@ ("maxItems" :> 1))) @@
    ("Id" :> IntSchema(1, 3)) @@
    ("Fixed" :> (IntSchema(1, 3) @@ ("example" :> JInt(42)))) @@
    ("Preset" :> (IntSchema(1, 3) @@ ("default" :> JInt(7)))) @@
    ("Pick" :> (IntSchema(1, 3) @@ ("enum" :> <<JInt(8), JInt(9)>>)))

IntegerSchemas ==
    { IntSchema(1, 1), IntSchema(1, 3), MinimumOnly(2), MinimumOnly(2000),
      ("type" :> JStr("integer")) }

GenSchemas ==
    { Ref("Node"), Ref("Padded"), Ref("List"), GenTable["Node"], IdObject,
      Ref("Fixed"), Ref("Preset"), Ref("Pick"), Ref("Id"), HolderOfFixed }
        \cup IntegerSchemas

GenConfigs ==
    { Config(Policy(NoList, NoList), s, Rate(0), d) :
        s \in Seeds, d \in {"none", "data_generator"} }

InitGen ==
    \E c \in GenConfigs, now \in BuildTimes :
        InitWith(c, [o \in Orch |-> now], StartRegistry, NoDir)

\* data_generator.DataGenerator.generate(open_api_spec, schema, depth)
CallGenerate(schema, depth) ==
    /\ probe.calls < MaxCalls
    /\ cfg.dg = "data_generator"
    /\ LET out == generate(GenTable, schema, depth, dg_rng[1]) IN
       /\ dg_rng' = [dg_rng EXCEPT ![1] = out.rng]
       /\ probe' = [probe EXCEPT
                       !.calls = @ + 1, !.kind = "generate", !.arg = schema,
                       !.depth = depth, !.result = out.val, !.exc = out.exc]
    /\ UNCHANGED <<cfg, built, ops, files, clock, last, recordings,
                   firstSaved, saveCount, missCount, unknownSeen>>

\* generator.DataGenerator.generate(schema)
CallG_generate(schema) ==
    /\ probe.calls < MaxCalls
    /\ cfg.dg = "none"
    /\ LET out == G_generate(schema, dg_rng[1]) IN
       /\ dg_rng' = [dg_rng EXCEPT ![1] = out.rng]
       /\ probe' = [probe EXCEPT
                       !.calls = @ + 1, !.kind = "G_generate", !.arg = schema,
                       !.depth = 0, !.result = out.val, !.exc = out.exc]
    /\ UNCHANGED <<cfg, built, ops, files, clock, last, recordings,
                   firstSaved, saveCount, missCount, unknownSeen>>

NextGen ==
    \/ \E s \in GenSchemas, d \in {0, DepthLimit + 1} : CallGenerate(s, d)
    \/ \E s \in IntegerSchemas \cup {IdObject} : CallG_generate(s)

SpecGen == InitGen /\ [][NextGen]_vars

-----------------------------------------------------------------------------
(* Two threads calling invoke on orchestrator 1.  A call is cut where the  *)
(* code touches shared state: the fixture lookup (and everything that      *)
(* returns from it), the registry lookup with the fault draw and the       *)
(* synthesis, and the save.  probe.thread keeps where each thread is and   *)
(* the response it has built or returned.                                  *)

Threads == {1, 2}

ThreadAt(th, pc, tool_name, args, path, response, exc) ==
    [pc |-> pc, tool_name |-> tool_name, args |-> args,
     tool_id |-> stable_hash(tool_name, args), path |-> path,
     response |-> response, exc |-> exc]

\* sandbox.py 46-113: up to the fixture lookup; a denial, a hit or a failing
\* lookup ends the call, a miss goes on
ThreadLoad(th, tool_name, args) ==
    /\ probe.calls < MaxCalls
    /\ probe.thread[th].pc \in {"idle", "done"}
    /\ LET out == invoke(1, tool_name, args, FALSE) IN
       probe' = [probe EXCEPT
                    !.calls = @ + 1, !.kind = "thread",
                    !.thread[th] =
                        IF "get_op" \in out.calls
                        THEN ThreadAt(th, "missed", tool_name, args, "miss", NoResponse, JNull)
                        ELSE ThreadAt(th, "done", tool_name, args, out.path,
                                      out.response, out.exc)]
    /\ UnchangedButProbe

\* sandbox.py 115-162: get_op, should_error, generate
ThreadSynthesize(th) ==
    LET t == probe.thread[th]
        found == get_op(ops[1], t.tool_name)
        latency == JInt(sample_latency(cfg.fault, t.tool_id))
        g == Sandbox_generate(cfg, found.op.result_schema, dg_rng[1])
        at(pc, path, response, exc) ==
            [probe EXCEPT !.thread[th] =
                ThreadAt(th, pc, t.tool_name, t.args, path, response, exc)]
    IN
    /\ t.pc = "missed"
    /\ IF ~found.found
       THEN /\ probe' = at("done", "unknown",
                           MockedResponse(JBool(FALSE), JNull,
                               JStr(KeyErrorStr(UnknownOperation(t.tool_name))), latency),
                           JNull)
            /\ UNCHANGED dg_rng
       ELSE IF should_error(cfg.fault, t.tool_id)
       THEN /\ probe' = at("built", "injected",
                           MockedResponse(JBool(FALSE), JNull, JStr(InjectedFailure), latency),
                           JNull)
            /\ UNCHANGED dg_rng
       ELSE /\ probe' = IF g.exc # JNull THEN at("done", "raised", NoResponse, g.exc)
                        ELSE at("built", "synth",
                                MockedResponse(JBool(TRUE), g.val, JNull, latency), JNull)
            /\ dg_rng' = [dg_rng EXCEPT ![1] = g.rng]
    /\ UNCHANGED <<cfg, built, ops, files, clock, last, recordings,
                   firstSaved, saveCount, missCount, unknownSeen>>

\* sandbox.py 164-204: fixtures.save and return
ThreadSave(th) ==
    LET t == probe.thread[th] IN
    /\ t.pc = "built"
    /\ files' = [files EXCEPT ![1] =
            FixtureStore_save(files[1], t.tool_name, t.tool_id,
                Fixture(t.response.ok, t.response.data, t.response.error,
                        t.response.latency_ms,
                        FixtureMetaData(Now, t.tool_id, ToString(cfg.fault.seed))))]
    /\ probe' = [probe EXCEPT !.thread[th].pc = "done"]
    /\ UNCHANGED <<cfg, built, ops, dg_rng, clock, last, recordings,
                   firstSaved, saveCount, missCount, unknownSeen>>

InitThreads ==
    \E c \in OrderConfigs : InitWith(c, [o \in Orch |-> 7], PairRegistry, NoDir)

NextThreads ==
    \/ \E th \in Threads, t \in Tools, a \in ArgsSet : ThreadLoad(th, t, a)
    \/ \E th \in Threads : ThreadSynthesize(th)
    \/ \E th \in Threads : ThreadSave(th)

SpecThreads == InitThreads /\ [][NextThreads]_vars

-----------------------------------------------------------------------------
(* Properties                                                              *)

Called(o) == last[o].path # "none"
LastPath(o) == get_path_for_fixture(last[o].tool_name, last[o].tool_id)
SameOutput(r1, r2) == r1.ok = r2.ok /\ r1.data = r2.data /\ r1.error = r2.error

\* the name is on the deny list, or an allow list is in force and the name is not on it
OnDenyList(policy, name) ==
    policy.unallowed_tools # NoList /\ InList(name, policy.unallowed_tools[1])
OnAllowList(policy, name) ==
    policy.allowed_tools # NoList /\ InList(name, policy.allowed_tools[1])
PolicyDenies(policy, name) ==
    \/ OnDenyList(policy, name)
    \/ policy.allowed_tools # NoList /\ policy.allowed_tools[1] # <<>>
       /\ ~OnAllowList(policy, name)

\* the latest invoke of o is the one that first saved the fixture of its signature
FirstSaving(o) == last[o].saves = 1 /\ saveCount[o][LastPath(o)] = 1

\* C1: once an invoke has missed the store and saved a fixture, every later invoke
\* with the same (operation, arguments) is a fixture hit that returns the ok, data and
\* error of that first call and calls neither should_error nor the data generator,
\* whatever was invoked in between.
C1_CacheReplay ==
    \A o \in Orch :
        (Called(o) /\ firstSaved[o][LastPath(o)] # NoResponse /\ ~FirstSaving(o))
        => /\ last[o].path = "hit"
           /\ SameOutput(last[o].response, firstSaved[o][LastPath(o)])
           /\ "should_error" \notin last[o].calls
           /\ "generate" \notin last[o].calls

\* a replay of a saved fixture, after a fixture of another signature was saved too
C1_Witness ==
    \E o \in Orch :
        /\ Called(o) /\ last[o].path = "hit"
        /\ firstSaved[o][LastPath(o)] # NoResponse
        /\ \E q \in FixturePaths : q # LastPath(o) /\ saveCount[o][q] = 1

\* C2: on a fixture miss for a registered, policy-allowed operation, invoke saves
\* exactly one fixture under (operation_name, signature) whose ok, data, error and
\* latency_ms equal those of the response it returns.
C2_MissSavesOutcome ==
    \A o \in Orch :
        (Called(o) /\ ~last[o].had_file /\ last[o].registered
            /\ ~PolicyDenies(cfg.policy, last[o].tool_name))
        => /\ last[o].saves = 1
           /\ last[o].response # NoResponse
           /\ files[o][LastPath(o)] # NoFile
           /\ LET doc == json_load(files[o][LastPath(o)]) IN
              /\ doc["ok"] = last[o].response.ok
              /\ doc["data"] = last[o].response.data
              /\ doc["error"] = last[o].response.error
              /\ doc["latency_ms"] = last[o].response.latency_ms

DeniedResponse(o) ==
    /\ last[o].path = "denied"
    /\ last[o].response = MockedResponse(JBool(FALSE), JNull,
                                         JStr(DeniedReason(last[o].tool_name)), JInt(0))
    /\ last[o].slept = JNull
    /\ files[o][LastPath(o)] # NoFile <=> last[o].had_file

\* C3 as stated: a denied invoke returns ok=false, the policy's reason and latency_ms=0
\* and makes no latency wait, no sample_latency or should_error call, no fixture load
\* or save.
C3_DeniedNoSampling ==
    \A o \in Orch :
        (Called(o) /\ PolicyDenies(cfg.policy, last[o].tool_name))
        => /\ DeniedResponse(o)
           /\ last[o].calls \cap {"sample_latency", "should_error", "load", "save"} = {}

\* C3 as amended: a denied invoke returns ok=false, the policy's reason and
\* latency_ms=0 and makes no latency wait, no should_error call, no fixture load or
\* save, whether or not a fixture exists; sample_latency has been called before the
\* policy check and its result is not used.
C3_DeniedImmediate ==
    \A o \in Orch :
        (Called(o) /\ PolicyDenies(cfg.policy, last[o].tool_name))
        => /\ DeniedResponse(o)
           /\ last[o].calls \cap {"should_error", "load", "save", "get_op", "generate"} = {}
           /\ "sample_latency" \in last[o].calls

\* a denied invoke for a signature that has a fixture in the store
C3_Witness ==
    \E o \in Orch :
        /\ Called(o) /\ last[o].path = "denied" /\ last[o].had_file
        /\ "sample_latency" \in last[o].calls

\* orchestrator o has just completed (or been thrown out of) an invoke in this step
Invoked(o) == clock'[o] = clock[o] + 1

C5_SynthesisExceptionCaught ==
    \A o \in Orch :
        (Called(o) /\ "generate" \in last[o].calls)
        => /\ last[o].exc = JNull
           /\ last[o].response # NoResponse
           /\ last[o].response.ok = JBool(FALSE) => last[o].response.error # JNull

\* C6: two orchestrators built independently with the same seed, the same registered
\* operations and empty fixture stores return identical ok, data and error on their
\* first invoke of the same (operation, arguments), and each returns that same output
\* again on its second invoke of it.
C6_FreshDeterminism ==
    [][/\ (\A o \in Orch : clock[o] = 0 /\ Invoked(o))
          => SameOutput(last'[1].response, last'[2].response)
       /\ \A o \in Orch :
            (clock[o] = 1 /\ Invoked(o) /\ last'[o].tool_name = last[o].tool_name
                /\ last'[o].args = last[o].args)
            => SameOutput(last'[o].response, last[o].response)
    ]_vars

\* C7: a fixture is created for a (operation, signature) pair only on the first cache
\* miss of a registered operation, invoke saves at most once per pair, and once a
\* fixture exists for a pair no later invoke changes or removes it.
C7_FixtureWriteOnce ==
    [][\A o \in Orch : \A p \in FixturePaths :
        /\ files[o][p] # NoFile => files'[o][p] = files[o][p]
        /\ saveCount'[o][p] <= 1
        /\ (files[o][p] = NoFile /\ files'[o][p] # NoFile)
           => (missCount[o][p] = 0 /\ last'[o].registered)
    ]_vars

RegisteredMiss(o) ==
    /\ Called(o) /\ ~last[o].had_file /\ last[o].registered
    /\ ~PolicyDenies(cfg.policy, last[o].tool_name)

C10_DenyPrecedence ==
    probe.kind = "is_allowed"
    => /\ OnDenyList(cfg.policy, probe.arg)
          => /\ probe.result.allowed = FALSE
             /\ probe.result.reason.t = "str"
             /\ Len(probe.result.reason.v) > 0
       /\ (OnAllowList(cfg.policy, probe.arg) /\ ~OnDenyList(cfg.policy, probe.arg))
          => probe.result.allowed = TRUE

\* is_allowed was asked about a name that is in the deny set and in the allow set
C10_Witness ==
    /\ probe.kind = "is_allowed"
    /\ OnDenyList(cfg.policy, probe.arg) /\ OnAllowList(cfg.policy, probe.arg)
    /\ probe.result.allowed = FALSE

\* C11: whenever an allow set is configured (any list, the empty list included) every
\* name absent from it is denied by is_allowed; only an absent (None) allow set puts
\* no restriction on the allow axis.
C11_AllowListSemantics ==
    probe.kind = "is_allowed"
    => /\ (cfg.policy.allowed_tools # NoList /\ ~OnAllowList(cfg.policy, probe.arg))
          => probe.result.allowed = FALSE
       /\ (cfg.policy.allowed_tools = NoList /\ ~OnDenyList(cfg.policy, probe.arg))
          => probe.result.allowed = TRUE

\* a value with the insertion order of every dict in it forgotten
RECURSIVE Canon(_)
Canon(j) ==
    IF j.t = "dict"
    THEN [t |-> "dict", v |-> { <<j.v[i][1], Canon(j.v[i][2])>> : i \in 1..Len(j.v) }]
    ELSE IF j.t \in {"arr", "tuple"}
    THEN [t |-> j.t, v |-> [i \in 1..Len(j.v) |-> Canon(j.v[i])]]
    ELSE j

\* the two argument mappings hold the same keys with the same values at every level
SameMapping(a, b) ==
    { <<a[i][1], Canon(a[i][2])>> : i \in 1..Len(a) }
        = { <<b[i][1], Canon(b[i][2])>> : i \in 1..Len(b) }

TwoHashed == probe.kind = "stable_hash" /\ Len(probe.hashed) = 2

C13_SignatureSensitive ==
    (TwoHashed /\ probe.hashed[1].tool_name = probe.hashed[2].tool_name
        /\ ~SameMapping(probe.hashed[1].args, probe.hashed[2].args))
    => probe.hashed[1].tool_id # probe.hashed[2].tool_id

\* two fixtures are equal as Python compares them: field by field, dicts compared
\* without regard to insertion order
FixtureEq(f, g) ==
    /\ f.ok = g.ok /\ f.error = g.error /\ f.latency_ms = g.latency_ms
    /\ f.metadata = g.metadata
    /\ Canon(f.data) = Canon(g.data)

\* C14: load(operation_name, signature) returns absent, without error, if nothing was
\* saved for that exact pair, and otherwise a fixture equal in every field, nested
\* metadata included, to the one most recently saved for that pair; saves to other
\* pairs do not affect it.
C14_StoreMapSemantics ==
    probe.kind = "load"
    => /\ probe.exc = JNull
       /\ IF probe.saved[probe.arg] = JNull THEN probe.result = JNull
          ELSE /\ probe.result # JNull
               /\ FixtureEq(probe.result, probe.saved[probe.arg])

\* the same property for stores whose directories safe_mkdir handed back and whose
\* saved data are JSON values
C14_WhenDirectoriesExist ==
    (probe.kind = "load" /\ cfg.mkdir = "returns_path"
        /\ \A p \in FixturePaths :
              /\ files[1][p] # CorruptFile
              /\ probe.saved[p] # JNull
                 => json_value(probe.saved[p].data) = probe.saved[p].data)
    => /\ probe.exc = JNull
       /\ IF probe.saved[probe.arg] = JNull THEN probe.result = JNull
          ELSE /\ probe.result # JNull
               /\ FixtureEq(probe.result, probe.saved[probe.arg])

\* C15: a register_op for a name that is already bound raises and leaves the
\* registry as it was, the first operation registered under a name stays
\* bound to it, and every get_op(name) after a register_op that returned
\* answers that same operation.
C15_DuplicateRegisterRejected ==
    /\ (probe.kind = "register_op" /\ probe.before[probe.arg] # NoOp) =>
            /\ probe.exc = JStr(AlreadyRegistered(probe.arg))
            /\ ops[1] = probe.before
    /\ \A n \in Tools : probe.first[n] # NoOp => ops[1][n] = probe.first[n]
    /\ (probe.kind = "get_op" /\ probe.first[probe.arg] # NoOp) =>
            /\ probe.exc = JNull
            /\ probe.result.op = probe.first[probe.arg]

\* a get_op after a second, different operation was offered for a bound name
C15_Witness ==
    /\ probe.kind = "register_op"
    /\ probe.exc # JNull
    /\ probe.result # probe.first[probe.arg]
    /\ probe.before[probe.arg] = probe.first[probe.arg]

\* the fixture that the file of the last call's (operation, signature) holds
StoredFixture(o) == load_from_json(json_load(files[o][LastPath(o)])).fixture

FailureShape(response) ==
    /\ response # NoResponse
    /\ response.ok = JBool(FALSE)
    /\ response.error.t = "str" /\ response.error.v # ""
    /\ response.data = JNull

SetMax(S) == CHOOSE m \in S : \A x \in S : x <= m

\* how many objects and arrays are nested inside one another in a value
RECURSIVE NestingDepth(_)
NestingDepth(j) ==
    IF j.t \notin {"obj", "arr"} THEN 0
    ELSE 1 + SetMax({0} \cup { NestingDepth(j.v[k]) : k \in DOMAIN j.v })

\* C18: for every schema of the table, the self-referential ones included,
\* generate returns a structure in which no object or array lies more than 6
\* levels below the returned value (the returned value being level 0, as the
\* depth argument counts), and a call made beyond the bound returns null.
C18_DepthBound ==
    probe.kind = "generate" =>
        /\ probe.exc = JNull
        /\ probe.depth > DepthLimit => probe.result = JNull
        /\ probe.depth = 0 => NestingDepth(probe.result) <= DepthLimit + 1

\* the same with the levels counted from 1: at most 6 objects or arrays nested
C18_AtMostSixNested ==
    (probe.kind = "generate" /\ probe.depth = 0) => NestingDepth(probe.result) <= DepthLimit

\* what does hold: at most 8 objects or arrays nested, and null beyond the bound
C18_DepthBoundOfCode ==
    probe.kind = "generate" =>
        /\ probe.exc = JNull
        /\ probe.depth > DepthLimit => probe.result = JNull
        /\ probe.depth = 0 => NestingDepth(probe.result) <= DepthLimit + 2

IntegerSchema(schema) ==
    IsMapping(schema) /\ "type" \in DOMAIN schema /\ schema["type"] = JStr("integer")
MinimumOf(schema) == Get(schema, "minimum", 0)
MaximumOf(schema) ==
    Get(schema, "maximum", IF MinimumOf(schema) >= 1000 THEN MinimumOf(schema) ELSE 1000)

\* C19: for an integer schema whose range is not empty, either generator
\* returns an integer v with minimum <= v <= maximum, the minimum being 0 and
\* the maximum max(minimum, 1000) where the schema does not give them; for the
\* object schema with required id of minimum = maximum = 1 the data has id = 1.
C19_IntegerRange ==
    (probe.kind \in {"generate", "G_generate"} /\ probe.depth = 0) =>
        /\ (IntegerSchema(probe.arg) /\ MinimumOf(probe.arg) <= MaximumOf(probe.arg)) =>
                /\ probe.exc = JNull
                /\ probe.result.t = "int"
                /\ MinimumOf(probe.arg) <= probe.result.v
                /\ probe.result.v <= MaximumOf(probe.arg)
        /\ probe.arg = IdObject =>
                /\ probe.exc = JNull
                /\ probe.result.t = "obj"
                /\ probe.result.v["id"] = JInt(1)

\* the same for the generator of data_generator.py alone
C19_IntegerRangeOfDataGenerator ==
    cfg.dg = "data_generator" => C19_IntegerRange

\* the file of the last call's (operation, signature), and whether it records a latency
StoredFile(o) == json_load(files[o][LastPath(o)])
RecordsLatency(o) ==
    "latency_ms" \in DOMAIN StoredFile(o) /\ StoredFile(o)["latency_ms"] # JNull

\* C20: on a fixture hit the response's latency_ms is the latency the fixture
\* records whenever it records one, a recorded 0 included, and the latency
\* sampled for the signature only when it records none; the call waits for
\* the latency of the response.
C20_HitLatency ==
    \A o \in Orch :
        (Called(o) /\ last[o].path = "hit") =>
            /\ RecordsLatency(o) =>
                    last[o].response.latency_ms = StoredFile(o)["latency_ms"]
            /\ ~RecordsLatency(o) =>
                    last[o].response.latency_ms
                        = JInt(sample_latency(cfg.fault, last[o].tool_id))
            /\ last[o].slept = last[o].response.latency_ms

\* what the code does: a recorded 0 counts as no record
C20_HitLatencyOfCode ==
    \A o \in Orch :
        (Called(o) /\ last[o].path = "hit") =>
            /\ (RecordsLatency(o) /\ StoredFile(o)["latency_ms"] # JInt(0)) =>
                    last[o].response.latency_ms = StoredFile(o)["latency_ms"]
            /\ (~RecordsLatency(o) \/ StoredFile(o)["latency_ms"] = JInt(0)) =>
                    last[o].response.latency_ms
                        = JInt(sample_latency(cfg.fault, last[o].tool_id))
            /\ last[o].slept = last[o].response.latency_ms

\* the last call of o was the first miss of its (operation, signature) on o
FirstMiss(o) ==
    /\ Called(o)
    /\ "should_error" \in last[o].calls
    /\ missCount[o][LastPath(o)] = 1

\* both runs have just made their first invoke of one and the same signature
SameFirstMiss ==
    /\ FirstMiss(1) /\ FirstMiss(2)
    /\ last[1].tool_name = last[2].tool_name
    /\ last[1].tool_id = last[2].tool_id

\* C21: the first invoke of a signature returns the same response (ok, data,
\* error, latency) and raises the same exception in two runs of one
\* orchestrator, whichever other signatures each run invoked before it.
C21_FirstOutcomeOrderFree ==
    SameFirstMiss => /\ last[1].response = last[2].response
                     /\ last[1].exc = last[2].exc

\* what does hold: the latency and the error decision do not depend on the order
C21_FaultDecisionsOrderFree ==
    SameFirstMiss => /\ last[1].slept = last[2].slept
                     /\ last[1].path = last[2].path

\* the entries the transcript of o holds
Entries(dir) == { p \in RecordingPaths : dir[p] # NoFile }

\* C23: an invoke that records adds one entry to the transcript and leaves
\* every entry recorded earlier as it was, also when an invocation with the
\* same operation and arguments was recorded before.
C23_AppendOnlyTranscript ==
    [][\A o \in Orch :
        (Invoked(o) /\ "record" \in last'[o].calls)
        => /\ Cardinality(Entries(recordings'[o])) = Cardinality(Entries(recordings[o])) + 1
           /\ \A p \in Entries(recordings[o]) : recordings'[o][p] = recordings[o][p]
    ]_vars

\* what does hold: the transcript keeps one entry per signature, the one of the
\* latest recorded invocation of it, and entries of other signatures stay
C23_LatestPerSignature ==
    [][\A o \in Orch :
        (Invoked(o) /\ "record" \in last'[o].calls)
        => /\ Entries(recordings'[o]) = Entries(recordings[o]) \cup {last'[o].tool_id \o ".json"}
           /\ json_load(recordings'[o][last'[o].tool_id \o ".json"])["response"]
                = JObj(response_to_json(last'[o].response))
           /\ \A p \in Entries(recordings[o]) :
                p # last'[o].tool_id \o ".json" => recordings'[o][p] = recordings[o][p]
    ]_vars

\* threads a and b both missed the store for one signature and built a response
BothMissed(a, b) ==
    /\ a # b
    /\ probe.thread[a].pc \in {"built", "done"} /\ probe.thread[b].pc \in {"built", "done"}
    /\ probe.thread[a].path \in {"synth", "injected"}
    /\ probe.thread[b].path \in {"synth", "injected"}
    /\ probe.thread[a].tool_name = probe.thread[b].tool_name
    /\ probe.thread[a].tool_id = probe.thread[b].tool_id

\* the fixture stored for the signature of thread a's call
ThreadFixture(a) ==
    load_from_json(json_load(
        files[1][get_path_for_fixture(probe.thread[a].tool_name,
                                      probe.thread[a].tool_id)])).fixture

\* C22: when two invokes of the same uncached (operation, arguments) both
\* miss and both synthesize, the two responses (and so the two fixtures they
\* save) have the same ok, data and error, and once both have saved, the
\* stored fixture agrees with what each caller received.
C22_ConcurrentMissesAgree ==
    \A a, b \in Threads :
        BothMissed(a, b) =>
            /\ SameOutput(probe.thread[a].response, probe.thread[b].response)
            /\ (probe.thread[a].pc = "done" /\ probe.thread[b].pc = "done")
                    => SameOutput(ThreadFixture(a), probe.thread[a].response)

\* what does hold: the two agree on ok and error, and the stored fixture is the
\* response of one of the two
C22_SameDecisionLastWriterWins ==
    \A a, b \in Threads :
        BothMissed(a, b) =>
            /\ probe.thread[a].response.ok = probe.thread[b].response.ok
            /\ probe.thread[a].response.error = probe.thread[b].response.error
            /\ (probe.thread[a].pc = "done" /\ probe.thread[b].pc = "done")
                    => \/ SameOutput(ThreadFixture(a), probe.thread[a].response)
                       \/ SameOutput(ThreadFixture(a), probe.thread[b].response)

ResponsePaths == {"denied", "hit", "unknown", "injected", "synth"}
RecordingOf(o) == last[o].tool_id \o ".json"

BareRef(schema) ==
    /\ IsMapping(schema)
    /\ "$ref" \in DOMAIN schema
    /\ {"example", "default", "enum"} \cap DOMAIN schema = {}

\* what steps 1-4 return for a node that declares an example, default or enum
Declared(node) ==
    IF "example" \in DOMAIN node THEN {node["example"]}
    ELSE IF "default" \in DOMAIN node THEN {node["default"]}
    ELSE IF "enum" \in DOMAIN node /\ node["enum"] # <<>>
    THEN { node["enum"][i] : i \in 1..Len(node["enum"]) }
    ELSE {}

\* C25: generate called on a bare $ref to a named schema that declares an
\* example, a default or a non-empty enum returns that example, that default
\* or a member of that enum, not a value generated from the type.
C25_RefReentry ==
    (probe.kind = "generate" /\ probe.depth = 0 /\ BareRef(probe.arg)
        /\ Declared(resolve_schema(GenTable, probe.arg)) # {})
    => /\ probe.exc = JNull
       /\ probe.result \in Declared(resolve_schema(GenTable, probe.arg))

\* what does hold: a reference met as a property is resolved before the call
\* made for it, and that call returns the declared example
C25_PropertyRefUsesExample ==
    (probe.kind = "generate" /\ probe.depth = 0 /\ probe.arg = HolderOfFixed)
    => probe.result = JObj(("f" :> GenTable["Fixed"]["example"]))

\* the profile injects a failure on every miss
AlwaysErrors == cfg.fault.error_rate.num >= cfg.fault.error_rate.den

\* C26: an invoke changes neither the operation registry nor the policy, and
\* it leaves the data generator's random state as it was when it ends in a
\* policy denial, a fixture hit, an unknown operation or an injected failure;
\* the state moves only on the path that synthesizes a body.
C26_InvokeFrame ==
    [][\A o \in Orch :
        Invoked(o) =>
            /\ ops' = ops
            /\ cfg' = cfg
            /\ (\/ PolicyDenies(cfg.policy, last'[o].tool_name)
                \/ last'[o].had_file
                \/ ~last'[o].registered
                \/ AlwaysErrors) => dg_rng'[o] = dg_rng[o]
            /\ last'[o].path \in {"denied", "hit", "unknown", "injected"}
                    => dg_rng'[o] = dg_rng[o]
            /\ dg_rng'[o] # dg_rng[o] => last'[o].path \in {"synth", "raised"}
    ]_vars

\* an injected failure for a registered operation, the generator still in the
\* state it was built with, after an earlier call
C26_Witness ==
    \E o \in Orch :
        /\ Called(o) /\ last[o].path = "injected" /\ last[o].registered
        /\ clock[o] >= 2
        /\ dg_rng[o] = Sandbox_init_rng(cfg, built[o])

====
